---- MODULE Spec2Model ----
(***************************************************************************)
(* Model of rabbitmq_utils.py: publishing JSON events to a RabbitMQ queue  *)
(* through the HTTP management API and consuming them with background      *)
(* polling threads (start_consumer / _consumer_loop / _poll_queue_once /   *)
(* _process_single_message).                                               *)
(*                                                                         *)
(* Time is discrete.  The only statements that let time pass are the two   *)
(* time.sleep calls; HTTP requests, decoding and handler calls are steps   *)
(* of zero duration that interleave freely with the other processes.       *)
(***************************************************************************)
EXTENDS Integers, Sequences, FiniteSets

\* ------------------------------------------------------------------ bounds
\* Messages that may ever be enqueued in a run of Spec.
MaxMsgs == 2
\* Messages that may ever be enqueued in a run of BurstSpec.
MaxBurst == 6
\* Meals the meal service may store, recipes and comments the community
\* service may store, in a run of SvcSpec, MealSpec or CommunitySpec.
MaxMeals == 2
MaxRecipes == 2
MaxComments == 2
\* Consecutive failed fetches of a consumer that are counted.
MaxStreak == 2

\* ------------------------------------------------------- program constants
\* start_consumer(..., poll_interval: float = 1.0)
PollInterval == 1
\* get_messages(queue_name, count=5) in _poll_queue_once
MaxBatch == 5
\* time.sleep(poll_interval * 2) in _consumer_loop
BackoffMultiplier == 2

Channels == {"c1", "c2"}
Consumers == {"r1", "r2"}
\* The two producing services and the users of the meal service.
Services == {"meal", "community"}
Users == {"u1", "u2"}

Min(a, b) == IF a <= b THEN a ELSE b

\* ------------------------------------------------------------------- codec
\* A JSON text is a sequence of tokens; a JSON value is a tagged scalar
\* [t |-> "str" | "num", v |-> <text>] or an object [t |-> "obj", m |-> <function
\* from key to scalar>].
Tok(k, v) == [k |-> k, v |-> v]
Str(v) == [t |-> "str", v |-> v]
Num(v) == [t |-> "num", v |-> v]
Obj(m) == [t |-> "obj", m |-> m]
NoValue == [t |-> "none"]
\* A member whose value is itself an object or an array (meal.model_dump()):
\* its text is carried as one token that holds the nested value.
Nested(v) == [t |-> "json", v |-> v]

RECURSIVE KeySeq(_)
\* The keys of a mapping in the order json.dumps walks them.
KeySeq(S) ==
    IF S = {} THEN <<>>
    ELSE LET k == CHOOSE x \in S : TRUE IN <<k>> \o KeySeq(S \ {k})

RECURSIVE EncodePairs(_, _)
EncodePairs(m, ks) ==
    IF ks = <<>> THEN <<>>
    ELSE LET k == Head(ks) IN
         <<Tok("str", k), Tok(":", ""), Tok(m[k].t, m[k].v)>>
         \o (IF Len(ks) > 1 THEN <<Tok(",", "")>> ELSE <<>>)
         \o EncodePairs(m, Tail(ks))

\* json.dumps(payload)
EncodeDropsLastKey(value) ==
    IF value.t = "obj"
    THEN LET ks == KeySeq(DOMAIN value.m) IN
         <<Tok("{", "")>>
         \o EncodePairs(value.m, IF ks = <<>> THEN ks ELSE SubSeq(ks, 1, Len(ks) - 1))
         \o <<Tok("}", "")>>
    ELSE <<Tok(value.t, value.v)>>

Encode(value) ==
    IF value.t = "obj"
    THEN <<Tok("{", "")>> \o EncodePairs(value.m, KeySeq(DOMAIN value.m)) \o <<Tok("}", "")>>
    ELSE <<Tok(value.t, value.v)>>

IsScalarTok(tk) == tk.k \in {"str", "num", "json"}

\* The members of an object text: key : value separated by commas.
WellFormedMembers(inner) ==
    /\ Len(inner) % 4 = 3
    /\ \A i \in 1..Len(inner) :
          CASE i % 4 = 1 -> inner[i].k = "str"
            [] i % 4 = 2 -> inner[i].k = ":"
            [] i % 4 = 3 -> IsScalarTok(inner[i])
            [] OTHER     -> inner[i].k = ","

MembersToMap(inner) ==
    LET n == (Len(inner) + 1) \div 4
        keys == {inner[4 * (j - 1) + 1].v : j \in 1..n}
        \* a repeated key keeps its last value, as a Python dict does
        last(k) == CHOOSE j \in 1..n :
                      /\ inner[4 * (j - 1) + 1].v = k
                      /\ \A j2 \in 1..n : inner[4 * (j2 - 1) + 1].v = k => j2 <= j
    IN [k \in keys |-> [t |-> inner[4 * (last(k) - 1) + 3].k,
                        v |-> inner[4 * (last(k) - 1) + 3].v]]

\* json.loads(payload): [ok |-> FALSE] stands for the exception it raises.
Decode(text) ==
    IF Len(text) = 1 /\ IsScalarTok(text[1])
    THEN [ok |-> TRUE, value |-> [t |-> text[1].k, v |-> text[1].v]]
    ELSE IF Len(text) >= 2 /\ text[1].k = "{" /\ text[Len(text)].k = "}"
    THEN LET inner == SubSeq(text, 2, Len(text) - 1) IN
         IF inner = <<>> THEN [ok |-> TRUE, value |-> Obj(<<>>)]
         ELSE IF WellFormedMembers(inner)
         THEN [ok |-> TRUE, value |-> Obj(MembersToMap(inner))]
         ELSE [ok |-> FALSE, value |-> NoValue]
    ELSE [ok |-> FALSE, value |-> NoValue]

\* ---------------------------------------------------------------- payloads
\* msg.get("payload"): the field may be missing from a fetched message.
Payload(text) == [present |-> TRUE, text |-> text]
MissingPayload == [present |-> FALSE, text |-> <<>>]

EvX == Obj([event_type |-> Str("x"), n |-> Num("1")])
EvMeal == Obj([event_type |-> Str("meal_logged"), user_id |-> Str("u1")])
\* The payloads callers hand to publish_message.
Events == {EvX, EvMeal}

\* What other AMQP clients may put in a queue.  kind and value record what was
\* put there: "wellformed" with the JSON value, or the defect of the payload.
ForeignMessages ==
    { [payload |-> MissingPayload, kind |-> "missing", value |-> NoValue],
      [payload |-> Payload(<<>>), kind |-> "empty", value |-> NoValue],
      [payload |-> Payload(<<Tok("{", ""), Tok("str", "event_type"), Tok(":", "")>>),
       kind |-> "malformed", value |-> NoValue],
      [payload |-> Payload(<<Tok("junk", "oops")>>), kind |-> "malformed", value |-> NoValue],
      [payload |-> Payload(<<Tok("num", "7")>>), kind |-> "wellformed", value |-> Num("7")] }

\* ------------------------------------------------------------------- state
VARIABLES
    queues,        \* broker: channel -> sequence of messages waiting
    declared,      \* broker: the queues that exist
    declaredHere,  \* channels this process has declared successfully
    nextId,        \* identity of the next message the broker accepts
    lastPublish,   \* the latest publish_message call and what it reported
    startResult,   \* consumer -> outcome of its start_consumer call
    pc,            \* consumer -> position of its thread
    chan,          \* consumer -> queue_name
    batch,         \* consumer -> messages returned by its latest get_messages
    idx,           \* consumer -> position of the for loop in batch
    timer,         \* consumer -> remaining time of the current time.sleep
    lastFetch,     \* consumer -> outcome of its latest get_messages
    sinceFetch,    \* consumer -> time passed since its latest get_messages
    calls,         \* consumer -> handler invocations of the current poll
    handled,       \* consumer -> ids it handed to the handler, over the run
    fetched,       \* ids of the messages some get_messages has returned
    failStreak,    \* consumer -> failed get_messages calls in a row, up to MaxStreak
    redeclared,    \* channels declared again by this process after a successful declare
    stopAt,        \* consumer -> 0, or 1 + the calls its handler had received at stop()
    mealStore,     \* meal service: MealStore._data, user -> meals
    recipeStore,   \* community service: RecipeStore._data, in insertion order
    commentStore,  \* community service: CommentStore._data, recipe id -> comments
    request,       \* service -> the request its worker is handling
    response,      \* service -> the latest response it sent
    publishCalls,  \* the publish_message calls the services made, in order
    accepted,      \* user -> the meals of the valid log_meal requests, in order
    totals,        \* nutrition service: NutritionAggregator._totals, user -> sums
    seen           \* the events the nutrition service's handler was invoked with

svcVars == <<mealStore, recipeStore, commentStore, request, response, publishCalls,
             accepted, totals, seen>>

vars == <<queues, declared, declaredHere, nextId, lastPublish, startResult, pc, chan,
          batch, idx, timer, lastFetch, sinceFetch, calls, handled, fetched,
          failStreak, redeclared, stopAt, svcVars>>

brokerVars == <<queues, declared, nextId>>
threadVars == <<pc, chan, batch, idx, timer, lastFetch, sinceFetch, calls, handled, fetched,
                failStreak>>

NoPublish ==
    [result |-> "none", chan |-> "none", status |-> "none", existed |-> FALSE,
     declaredHere |-> FALSE, id |-> 0]

\* No request in hand, no response sent yet.
NoRequest == [op |-> "none", user |-> "none", id |-> 0]
NoResponse ==
    [op |-> "none", status |-> 0, user |-> "none", id |-> 0, body |-> <<>>,
     published |-> "none"]

Init ==
    /\ queues = [c \in Channels |-> <<>>]
    /\ declared = {}
    /\ declaredHere = {}
    /\ nextId = 1
    /\ lastPublish = NoPublish
    /\ startResult = [r \in Consumers |-> "none"]
    /\ pc = [r \in Consumers |-> "idle"]
    /\ chan = [r \in Consumers |-> "none"]
    /\ batch = [r \in Consumers |-> <<>>]
    /\ idx = [r \in Consumers |-> 1]
    /\ timer = [r \in Consumers |-> 0]
    /\ lastFetch = [r \in Consumers |-> "none"]
    /\ sinceFetch = [r \in Consumers |-> 0]
    /\ calls = [r \in Consumers |-> <<>>]
    /\ handled = [r \in Consumers |-> <<>>]
    /\ fetched = {}
    /\ failStreak = [r \in Consumers |-> 0]
    /\ redeclared = {}
    /\ stopAt = [r \in Consumers |-> 0]
    /\ mealStore = [u \in {} |-> <<>>]
    /\ recipeStore = <<>>
    /\ commentStore = [i \in {} |-> <<>>]
    /\ request = [s \in Services |-> NoRequest]
    /\ response = [s \in Services |-> NoResponse]
    /\ publishCalls = <<>>
    /\ accepted = [u \in Users |-> <<>>]
    /\ totals = [u \in {} |-> <<>>]
    /\ seen = <<>>

\* Outcomes of one HTTP request to the management API.
HttpStatus == {"ok", "rejected", "unreachable"}

Running(r) == pc[r] \notin {"idle", "dead"}
Polling(c) == \E r \in Consumers : Running(r) /\ chan[r] = c

\* Longest age a message's record keeps counting to.
AgeCap == PollInterval * BackoffMultiplier + 1

\* ---------------------------------------------------------------- producer
\* publish_message: what the call reports for the broker's response.
PublishIgnoresRouted(status, routed) ==
    CASE status = "unreachable" -> "Unreachable"
      [] status = "rejected"    -> "BrokerRejected"
      [] OTHER                  -> "ok"

PublishResult(status, routed) ==
    CASE status = "unreachable" -> "Unreachable"
      [] status = "rejected"    -> "BrokerRejected"
      [] OTHER                  -> IF routed THEN "ok" ELSE "NotRouted"

\* A message as the broker stores it.  age, ahead and clean are records of the
\* delivery, kept only when track is set: the time it has waited, the number of
\* messages before it in the queue when it arrived, and whether a consumer was
\* polling the queue then and every fetch of the queue succeeded since.
NewMessage(c, payload, kind, value, track) ==
    [id |-> nextId, payload |-> payload, kind |-> kind, value |-> value, age |-> 0,
     ahead |-> IF track THEN Len(queues[c]) ELSE 0,
     clean |-> track /\ Polling(c)]

\* publish_message(routing_key, payload): one POST to the default exchange.  The
\* broker routes the message to the queue named routing_key if it exists.  What
\* the call reported is kept in lastPublish when report is set.
PublishMessage(c, e, cap, track, report) ==
    /\ nextId <= cap
    /\ \E status \in HttpStatus :
          LET routed == status = "ok" /\ c \in declared
              m == NewMessage(c, Payload(Encode(e)), "wellformed", e, track)
          IN /\ queues' = IF routed THEN [queues EXCEPT ![c] = Append(@, m)] ELSE queues
             /\ nextId' = IF routed THEN nextId + 1 ELSE nextId
             /\ lastPublish' =
                   IF report
                   THEN [result |-> PublishResult(status, routed), chan |-> c,
                         status |-> status, existed |-> c \in declared,
                         declaredHere |-> c \in declaredHere,
                         id |-> IF routed THEN nextId ELSE 0]
                   ELSE lastPublish
    /\ UNCHANGED <<declared, declaredHere, startResult, threadVars>>
    /\ UNCHANGED <<redeclared, stopAt, svcVars>>

\* ------------------------------------------------------------- environment
\* Another client of the broker publishes a raw message to an existing queue.
ForeignPublish(c, f, cap) ==
    /\ nextId <= cap
    /\ c \in declared
    /\ queues' = [queues EXCEPT ![c] = Append(@, NewMessage(c, f.payload, f.kind, f.value, FALSE))]
    /\ nextId' = nextId + 1
    /\ UNCHANGED <<declared, declaredHere, lastPublish, startResult, threadVars>>
    /\ UNCHANGED <<redeclared, stopAt, svcVars>>

\* Another process declares the queue.
ForeignDeclare(c) ==
    /\ c \notin declared
    /\ declared' = declared \cup {c}
    /\ UNCHANGED <<queues, nextId, declaredHere, lastPublish, startResult, threadVars>>
    /\ UNCHANGED <<redeclared, stopAt, svcVars>>

\* ---------------------------------------------------------------- consumer
\* declare_queue: TRUE when the call raises.
DeclareQueueNeverRaises(status) == FALSE

DeclareQueueRaises(status) == status # "ok"

\* start_consumer creates and starts the thread after declare_queue: TRUE when
\* the thread is started, given whether declare_queue raised.
StartsThreadAnyway(raised) == TRUE

StartsThread(raised) == ~raised

\* start_consumer(queue_name, handler): declare the queue, then start the thread.
\* Every call sends the declare request; redeclared records the channels for
\* which one was sent after an earlier declare of this process had succeeded.
StartConsumer(r, c) ==
    /\ pc[r] = "idle"
    /\ \E status \in HttpStatus :
          LET raised == DeclareQueueRaises(status) IN
          /\ redeclared' = IF c \in declaredHere THEN redeclared \cup {c} ELSE redeclared
          /\ startResult' = [startResult EXCEPT ![r] = IF raised THEN "error" ELSE "ok"]
          /\ declared' = IF status = "ok" THEN declared \cup {c} ELSE declared
          /\ declaredHere' = IF raised THEN declaredHere ELSE declaredHere \cup {c}
          /\ IF StartsThread(raised)
             THEN /\ pc' = [pc EXCEPT ![r] = "fetch"]
                  /\ chan' = [chan EXCEPT ![r] = c]
             ELSE UNCHANGED <<pc, chan>>
    /\ UNCHANGED <<queues, nextId, lastPublish, batch, idx, timer, lastFetch,
                   sinceFetch, calls, handled, fetched>>
    /\ UNCHANGED <<failStreak, stopAt, svcVars>>

\* The broker's side of POST /queues/<vhost>/<queue>/get with
\* ackmode ack_requeue_false: the messages returned leave the queue.
BrokerGetIgnoresCount(q, count) == [msgs |-> q, rest |-> <<>>]

BrokerGetRequeues(q, count) ==
    [msgs |-> SubSeq(q, 1, Min(count, Len(q))), rest |-> q]

BrokerGet(q, count) ==
    [msgs |-> SubSeq(q, 1, Min(count, Len(q))),
     rest |-> SubSeq(q, Min(count, Len(q)) + 1, Len(q))]

\* get_messages inside the try of _poll_queue_once: where the thread goes next.
PollFetchSkipsBatch(status) == IF status = "ok" THEN "sleep" ELSE "backoff"

PollFetchUncaught(status) == IF status = "ok" THEN "dispatch" ELSE "dead"

PollFetch(status) == IF status = "ok" THEN "dispatch" ELSE "backoff"

\* time.sleep(poll_interval * 2) in _consumer_loop
BackoffGrowsWithFailures(interval) ==
    IF \E r \in Consumers : pc[r] = "fetch" /\ failStreak[r] >= 1
    THEN interval * BackoffMultiplier * BackoffMultiplier
    ELSE interval * BackoffMultiplier

BackoffNoMultiplier(interval) == interval

BackoffInterval(interval) == interval * BackoffMultiplier

\* A failed fetch of channel c: the messages waiting there no longer count as
\* delivered over a reachable broker.
Tainted(q) == [i \in 1..Len(q) |-> [q[i] EXCEPT !.clean = FALSE]]

\* _poll_queue_once up to the for loop: messages = get_messages(queue_name, count=5)
Fetch(r) ==
    /\ pc[r] = "fetch"
    /\ \E status \in HttpStatus :
          LET c == chan[r]
              got == BrokerGet(queues[c], MaxBatch)
              next == PollFetch(status)
          IN /\ pc' = [pc EXCEPT ![r] = next]
             /\ lastFetch' = [lastFetch EXCEPT ![r] = IF status = "ok" THEN "ok" ELSE "fail"]
             /\ sinceFetch' = [sinceFetch EXCEPT ![r] = 0]
             /\ failStreak' = [failStreak EXCEPT ![r] =
                                  IF status = "ok" THEN 0 ELSE Min(@ + 1, MaxStreak)]
             /\ calls' = [calls EXCEPT ![r] = <<>>]
             /\ idx' = [idx EXCEPT ![r] = 1]
             /\ IF status = "ok"
                THEN /\ batch' = [batch EXCEPT ![r] = got.msgs]
                     /\ queues' = [queues EXCEPT ![c] = got.rest]
                     /\ fetched' = fetched \cup {got.msgs[i].id : i \in 1..Len(got.msgs)}
                     /\ timer' = timer
                ELSE /\ batch' = [batch EXCEPT ![r] = <<>>]
                     /\ fetched' = fetched
                     /\ queues' = [queues EXCEPT ![c] = Tainted(@)]
                     /\ timer' = [timer EXCEPT ![r] =
                                     IF next = "backoff" THEN BackoffInterval(PollInterval) ELSE 0]
    /\ UNCHANGED <<declared, declaredHere, nextId, lastPublish, startResult, chan, handled>>
    /\ UNCHANGED <<redeclared, stopAt, svcVars>>

\* How the handler call ends.
HandlerOutcome == {"returns", "raises"}

\* _process_single_message(msg, handler, queue_name): whether the handler is
\* invoked, with what, and whether an exception leaves the function.
ProcessRaiseEscapes(msg, outcome) ==
    IF ~msg.payload.present \/ msg.payload.text = <<>>
    THEN [invoked |-> FALSE, data |-> NoValue, escapes |-> FALSE]
    ELSE LET d == Decode(msg.payload.text) IN
         IF ~d.ok THEN [invoked |-> FALSE, data |-> NoValue, escapes |-> FALSE]
         ELSE [invoked |-> TRUE, data |-> d.value, escapes |-> outcome = "raises"]

ProcessDecodeErrorEscapes(msg, outcome) ==
    IF ~msg.payload.present \/ msg.payload.text = <<>>
    THEN [invoked |-> FALSE, data |-> NoValue, escapes |-> FALSE]
    ELSE LET d == Decode(msg.payload.text) IN
         IF ~d.ok THEN [invoked |-> FALSE, data |-> NoValue, escapes |-> TRUE]
         ELSE [invoked |-> TRUE, data |-> d.value, escapes |-> FALSE]

ProcessDispatchesUndecoded(msg, outcome) ==
    IF ~msg.payload.present \/ msg.payload.text = <<>>
    THEN [invoked |-> FALSE, data |-> NoValue, escapes |-> FALSE]
    ELSE LET d == Decode(msg.payload.text) IN
         [invoked |-> TRUE, data |-> d.value, escapes |-> FALSE]

ProcessSingleMessage(msg, outcome) ==
    IF ~msg.payload.present \/ msg.payload.text = <<>>
    THEN [invoked |-> FALSE, data |-> NoValue, escapes |-> FALSE]
    ELSE LET d == Decode(msg.payload.text) IN
         IF ~d.ok THEN [invoked |-> FALSE, data |-> NoValue, escapes |-> FALSE]
         ELSE [invoked |-> TRUE, data |-> d.value, escapes |-> FALSE]

\* "for msg in messages": the message of the i-th iteration.
CurrentReversed(messages, i) == messages[Len(messages) + 1 - i]

Current(messages, i) == messages[i]

\* One iteration of "for msg in messages" in _poll_queue_once.
ProcessMessage(r) ==
    /\ pc[r] = "dispatch"
    /\ idx[r] <= Len(batch[r])
    /\ \E outcome \in HandlerOutcome :
          LET msg == Current(batch[r], idx[r])
              res == ProcessSingleMessage(msg, outcome)
              call == [pos |-> idx[r], id |-> msg.id, data |-> res.data, sent |-> msg.value,
                       outcome |-> outcome, age |-> msg.age, ahead |-> msg.ahead,
                       clean |-> msg.clean]
          IN /\ calls' = IF res.invoked THEN [calls EXCEPT ![r] = Append(@, call)] ELSE calls
             /\ handled' = IF res.invoked THEN [handled EXCEPT ![r] = Append(@, msg.id)]
                           ELSE handled
             /\ pc' = IF res.escapes THEN [pc EXCEPT ![r] = "dead"] ELSE pc
             /\ idx' = IF res.escapes THEN idx ELSE [idx EXCEPT ![r] = @ + 1]
    /\ UNCHANGED <<brokerVars, declaredHere, lastPublish, startResult, chan, batch, timer,
                   lastFetch, sinceFetch, fetched>>
    /\ UNCHANGED <<failStreak, redeclared, stopAt, svcVars>>

\* time.sleep(poll_interval) at the end of _poll_queue_once
PollSleepBacksOff(interval) == interval * BackoffMultiplier

PollSleep(interval) == interval

\* The for loop is over: time.sleep(poll_interval) begins.
BeginSleep(r) ==
    /\ pc[r] = "dispatch"
    /\ idx[r] > Len(batch[r])
    /\ pc' = [pc EXCEPT ![r] = "sleep"]
    /\ timer' = [timer EXCEPT ![r] = PollSleep(PollInterval)]
    /\ UNCHANGED <<brokerVars, declaredHere, lastPublish, startResult, chan, batch, idx,
                   lastFetch, sinceFetch, calls, handled, fetched>>
    /\ UNCHANGED <<failStreak, redeclared, stopAt, svcVars>>

\* A sleep is over: _poll_queue_once returns True, or the backoff ends, and the
\* while loop of _consumer_loop polls again.
Wake(r) ==
    /\ pc[r] \in {"sleep", "backoff"}
    /\ timer[r] = 0
    /\ pc' = [pc EXCEPT ![r] = "fetch"]
    /\ UNCHANGED <<brokerVars, declaredHere, lastPublish, startResult, chan, batch, idx,
                   timer, lastFetch, sinceFetch, calls, handled, fetched>>
    /\ UNCHANGED <<failStreak, redeclared, stopAt, svcVars>>

\* A caller asks the handle start_consumer returned to stop.  The handle is the
\* threading.Thread itself: it has no stop(), and _consumer_loop tests no flag,
\* so the request leaves the thread where it is.  stopAt records the request.
StopConsumer(r) ==
    /\ startResult[r] = "ok"
    /\ stopAt[r] = 0
    /\ stopAt' = [stopAt EXCEPT ![r] = Len(handled[r]) + 1]
    /\ UNCHANGED <<brokerVars, declaredHere, lastPublish, startResult, threadVars,
                   redeclared, svcVars>>

ConsumerStep(r) == Fetch(r) \/ ProcessMessage(r) \/ BeginSleep(r) \/ Wake(r)

\* ------------------------------------------------------------------- time
Aged(q) == [i \in 1..Len(q) |-> [q[i] EXCEPT !.age = Min(@ + 1, AgeCap)]]

\* One unit of time passes.  Only sleeping threads let it pass.
Tick(track) ==
    /\ \A r \in Consumers : Running(r) => pc[r] \in {"sleep", "backoff"} /\ timer[r] > 0
    /\ timer' = [r \in Consumers |-> IF timer[r] > 0 THEN timer[r] - 1 ELSE 0]
    /\ sinceFetch' = [r \in Consumers |->
                         IF Running(r) THEN Min(sinceFetch[r] + 1, AgeCap) ELSE sinceFetch[r]]
    /\ queues' = IF track THEN [c \in Channels |-> Aged(queues[c])] ELSE queues
    /\ UNCHANGED <<declared, declaredHere, nextId, lastPublish, startResult, pc, chan,
                   batch, idx, lastFetch, calls, handled, fetched>>
    /\ UNCHANGED <<failStreak, redeclared, stopAt, svcVars>>

\* ------------------------------------------------------------ meal service
\* "nutrition_service_queue" and "notification_service_queue"
NutritionServiceQueue == "c1"
NotificationServiceQueue == "c2"

\* class MealTypeEnum
MealTypeEnum == {"breakfast", "lunch", "dinner", "snack"}

\* A number field of a JSON body: a number, or null.
JNum(x) == <<x>>
JNull == <<>>

\* A MealItem as the request body gives it; carbs, protein and fats default to 0.
Item(name, calories) ==
    [name |-> name, calories |-> JNum(calories), carbs |-> JNum(0), protein |-> JNum(0),
     fats |-> JNum(0)]

\* Bodies of POST /users/{user_id}/meals.  kind records what the client sent.
MealRequests ==
    { [kind |-> "valid",
       body |-> [mealType |-> "breakfast", items |-> <<Item("egg", 70)>>]],
      [kind |-> "valid",
       body |-> [mealType |-> "snack",
                 items |-> <<[Item("shake", 100) EXCEPT !.carbs = JNull,
                                                        !.protein = JNum(20)]>>]],
      [kind |-> "invalid_meal_type",
       body |-> [mealType |-> "brunch", items |-> <<Item("egg", 70)>>]],
      [kind |-> "empty_items", body |-> [mealType |-> "lunch", items |-> <<>>]],
      [kind |-> "negative_calories",
       body |-> [mealType |-> "dinner", items |-> <<Item("egg", 0 - 1)>>]],
      [kind |-> "missing_meal_type", body |-> [items |-> <<Item("egg", 70)>>]] }

\* MealItem: calories is a float with ge=0; carbs, protein and fats are
\* Optional[float] with ge=0, so null is accepted for them.
ValidItem(item) ==
    /\ item.calories # JNull
    /\ item.calories[1] >= 0
    /\ \A f \in {"carbs", "protein", "fats"} : item[f] = JNull \/ item[f][1] >= 0

\* MealCreateRequest: mealType is required and of MealTypeEnum, items has
\* min_items=1 and every item is a valid MealItem.
ValidMealRequestAnyItems(body) ==
    /\ "mealType" \in DOMAIN body
    /\ body.mealType \in MealTypeEnum
    /\ \A k \in 1..Len(body.items) : ValidItem(body.items[k])

ValidMealRequest(body) ==
    /\ "mealType" \in DOMAIN body
    /\ body.mealType \in MealTypeEnum
    /\ Len(body.items) >= 1
    /\ \A k \in 1..Len(body.items) : ValidItem(body.items[k])

\* MealStore.add_meal: self._data.setdefault(user_id, []).append(meal)
AddMealOverwrites(data, u, meal) ==
    [x \in DOMAIN data \cup {u} |-> IF x = u THEN <<meal>> ELSE data[x]]

AddMeal(data, u, meal) ==
    [x \in DOMAIN data \cup {u} |->
        IF x # u THEN data[x]
        ELSE IF u \in DOMAIN data THEN Append(data[u], meal) ELSE <<meal>>]

\* MealStore.get_meals: list(self._data.get(user_id, []))
GetMeals(data, u) == IF u \in DOMAIN data THEN data[u] ELSE <<>>

\* The meals in the store, each with its user and position.
StoredMeals ==
    UNION {{<<u, k>> : k \in 1..Len(mealStore[u])} : u \in DOMAIN mealStore}

\* The meal of user u with the given id (the meal object log_meal holds).
MealOf(u, id) ==
    LET meals == GetMeals(mealStore, u)
    IN meals[CHOOSE k \in 1..Len(meals) : meals[k].id = id]

\* _publish_meal_event: the event handed to publish_message, with
\* meal.model_dump() as its meal.
MealEvent(u, meal) ==
    Obj([event_type |-> Str("meal_logged"), user_id |-> Str(u), meal |-> Nested(meal)])

\* The status of the response once publish_message has returned or raised:
\* the try/except of _publish_meal_event and _publish_new_recipe_event lets no
\* exception reach the endpoint, whose status_code is 201.
StatusIfPublishErrorEscapes(result) == IF result = "ok" THEN 201 ELSE 500

StatusAfterPublish(result) == 201

\* What one publish_message call of a service does at the broker and reports.
ServicePublish(s, c, e, status) ==
    LET routed == status = "ok" /\ c \in declared
        result == PublishResult(status, routed)
        m == NewMessage(c, Payload(Encode(e)), "wellformed", e, FALSE)
    IN /\ queues' = IF routed THEN [queues EXCEPT ![c] = Append(@, m)] ELSE queues
       /\ nextId' = IF routed THEN nextId + 1 ELSE nextId
       /\ publishCalls' = Append(publishCalls, [service |-> s, queue |-> c, event |-> e])
       /\ response' = [response EXCEPT ![s] =
                          [op |-> request[s].op, status |-> StatusAfterPublish(result),
                           user |-> request[s].user, id |-> request[s].id, body |-> <<>>,
                           published |-> result]]
       /\ request' = [request EXCEPT ![s] = NoRequest]

\* POST /users/{user_id}/meals up to the call of _publish_meal_event: the body
\* is validated (422 when invalid), the meal gets a fresh id and is stored.
LogMeal(u, rq) ==
    /\ request["meal"] = NoRequest
    /\ LET id == Cardinality(StoredMeals) + 1
           meal == [id |-> id, mealType |-> rq.body.mealType, items |-> rq.body.items]
       IN IF ValidMealRequest(rq.body)
          THEN /\ id <= MaxMeals
               /\ mealStore' = AddMeal(mealStore, u, meal)
               /\ request' = [request EXCEPT !["meal"] =
                                 [op |-> "log_meal", user |-> u, id |-> id]]
               /\ accepted' = IF rq.kind = "valid"
                               THEN [accepted EXCEPT ![u] = Append(@, meal)]
                               ELSE accepted
               /\ UNCHANGED response
          ELSE /\ response' = [response EXCEPT !["meal"] =
                                  [op |-> "log_meal", status |-> 422, user |-> u, id |-> 0,
                                   body |-> <<>>, published |-> "none"]]
               /\ accepted' = IF rq.kind = "valid"
                               THEN [accepted EXCEPT ![u] = Append(@, meal)]
                               ELSE accepted
               /\ UNCHANGED <<mealStore, request>>
    /\ UNCHANGED <<brokerVars, declaredHere, lastPublish, startResult, threadVars,
                   redeclared, stopAt, totals, seen, recipeStore, commentStore, publishCalls>>

\* The rest of log_meal: _publish_meal_event, then the 201 response.
PublishMealEvent ==
    /\ request["meal"].op = "log_meal"
    /\ \E status \in HttpStatus :
          ServicePublish("meal", NutritionServiceQueue,
                         MealEvent(request["meal"].user,
                                   MealOf(request["meal"].user, request["meal"].id)),
                         status)
    /\ UNCHANGED <<declared, declaredHere, lastPublish, startResult, threadVars,
                   redeclared, stopAt, totals, seen, mealStore, recipeStore,
                   commentStore, accepted>>

\* GET /users/{user_id}/meals
GetMealsRequest(u) ==
    /\ response' = [response EXCEPT !["meal"] =
                       [op |-> "get_meals", status |-> 200, user |-> u, id |-> 0,
                        body |-> GetMeals(mealStore, u), published |-> "none"]]
    /\ UNCHANGED <<brokerVars, declaredHere, lastPublish, startResult, threadVars,
                   redeclared, stopAt, totals, seen, mealStore, recipeStore,
                   commentStore, request,
                   publishCalls, accepted>>

\* ------------------------------------------------------- community service
\* Bodies of POST /recipes: title, ingredients and instructions are required.
RecipeRequests ==
    { [kind |-> "valid",
       body |-> [title |-> "toast", ingredients |-> <<"bread">>, instructions |-> "toast it"]],
      [kind |-> "missing_title",
       body |-> [ingredients |-> <<"bread">>, instructions |-> "toast it"]] }

\* class RecipeCreateRequest
ValidRecipeRequest(body) == {"title", "ingredients", "instructions"} \subseteq DOMAIN body

\* Bodies of POST /recipes/{recipe_id}/comments
CommentRequests == {[author |-> "ann", comment |-> "nice"], [author |-> "bob", comment |-> "meh"]}

\* The recipe ids clients ask about: those the service can have issued, and
\* one it never issues.
RecipeIds == 0..MaxRecipes

\* RecipeStore.add: self._data[recipe.id] = recipe (a dict keeps insertion order)
RecipeAddStoresNothing(data, recipe) == data

RecipeAdd(data, recipe) ==
    IF \E k \in 1..Len(data) : data[k].id = recipe.id
    THEN [k \in 1..Len(data) |-> IF data[k].id = recipe.id THEN recipe ELSE data[k]]
    ELSE Append(data, recipe)

\* RecipeStore.exists: recipe_id in self._data
RecipeExistsAlways(data, id) == TRUE

RecipeExists(data, id) == \E k \in 1..Len(data) : data[k].id = id

\* CommentStore.add: self._data.setdefault(recipe_id, []).append(comment)
CommentAdd(data, id, comment) ==
    [x \in DOMAIN data \cup {id} |->
        IF x # id THEN data[x]
        ELSE IF id \in DOMAIN data THEN Append(data[id], comment) ELSE <<comment>>]

\* CommentStore.get_for_recipe: list(self._data.get(recipe_id, []))
GetForRecipe(data, id) == IF id \in DOMAIN data THEN data[id] ELSE <<>>

StoredComments ==
    UNION {{<<i, k>> : k \in 1..Len(commentStore[i])} : i \in DOMAIN commentStore}

\* _publish_new_recipe_event: the event handed to publish_message.  The recipe
\* inside the event is represented by its id.
RecipeEventWrongQueue == NutritionServiceQueue

RecipeEventQueue == NotificationServiceQueue

RecipeEvent(id) == Obj([event_type |-> Str("new_recipe_posted"), recipe |-> Str(id)])

\* POST /recipes up to the call of _publish_new_recipe_event: the body is
\* validated (422 when invalid), the recipe gets a fresh id and is stored.
CreateRecipe(rq) ==
    /\ request["community"] = NoRequest
    /\ LET id == Len(recipeStore) + 1 IN
       IF ValidRecipeRequest(rq.body)
       THEN /\ id <= MaxRecipes
            /\ recipeStore' = RecipeAdd(recipeStore,
                                  [id |-> id, title |-> rq.body.title,
                                   ingredients |-> rq.body.ingredients,
                                   instructions |-> rq.body.instructions])
            /\ request' = [request EXCEPT !["community"] =
                              [op |-> "create_recipe", user |-> "none", id |-> id]]
            /\ UNCHANGED response
       ELSE /\ response' = [response EXCEPT !["community"] =
                               [op |-> "create_recipe", status |-> 422, user |-> "none",
                                id |-> 0, body |-> <<>>, published |-> "none"]]
            /\ UNCHANGED <<recipeStore, request>>
    /\ UNCHANGED <<brokerVars, declaredHere, lastPublish, startResult, threadVars,
                   redeclared, stopAt, totals, seen, mealStore, commentStore, publishCalls,
                   accepted>>

\* The rest of create_recipe: _publish_new_recipe_event, then the 201 response.
PublishRecipeEvent ==
    /\ request["community"].op = "create_recipe"
    /\ \E status \in HttpStatus :
          ServicePublish("community", RecipeEventQueue,
                         RecipeEvent(request["community"].id), status)
    /\ UNCHANGED <<declared, declaredHere, lastPublish, startResult, threadVars,
                   redeclared, stopAt, totals, seen, mealStore, recipeStore,
                   commentStore, accepted>>

\* GET /recipes
ListRecipes ==
    /\ response' = [response EXCEPT !["community"] =
                       [op |-> "list_recipes", status |-> 200, user |-> "none", id |-> 0,
                        body |-> recipeStore, published |-> "none"]]
    /\ UNCHANGED <<brokerVars, declaredHere, lastPublish, startResult, threadVars,
                   redeclared, stopAt, totals, seen, mealStore, recipeStore,
                   commentStore, request,
                   publishCalls, accepted>>

\* POST /recipes/{recipe_id}/comments
AddComment(id, rq) ==
    /\ IF ~RecipeExists(recipeStore, id)
       THEN /\ response' = [response EXCEPT !["community"] =
                               [op |-> "add_comment", status |-> 404, user |-> "none",
                                id |-> id, body |-> <<>>, published |-> "none"]]
            /\ UNCHANGED commentStore
       ELSE /\ Cardinality(StoredComments) < MaxComments
            /\ commentStore' = CommentAdd(commentStore, id, rq)
            /\ response' = [response EXCEPT !["community"] =
                               [op |-> "add_comment", status |-> 201, user |-> "none",
                                id |-> id, body |-> <<rq>>, published |-> "none"]]
    /\ UNCHANGED <<brokerVars, declaredHere, lastPublish, startResult, threadVars,
                   redeclared, stopAt, totals, seen, mealStore, recipeStore, request, publishCalls,
                   accepted>>

\* GET /recipes/{recipe_id}/comments
GetComments(id) ==
    /\ response' = [response EXCEPT !["community"] =
                       IF ~RecipeExists(recipeStore, id)
                       THEN [op |-> "get_comments", status |-> 404, user |-> "none",
                             id |-> id, body |-> <<>>, published |-> "none"]
                       ELSE [op |-> "get_comments", status |-> 200, user |-> "none",
                             id |-> id, body |-> GetForRecipe(commentStore, id),
                             published |-> "none"]]
    /\ UNCHANGED <<brokerVars, declaredHere, lastPublish, startResult, threadVars,
                   redeclared, stopAt, totals, seen, mealStore, recipeStore,
                   commentStore, request,
                   publishCalls, accepted>>

\* ------------------------------------------------------- nutrition service
\* The totals update_from_meal keeps, in the order its statements add to them.
NutritionFields == <<"calories", "carbs", "protein", "fats">>
FieldSet == {NutritionFields[k] : k \in 1..Len(NutritionFields)}
ZeroTotals == [f \in FieldSet |-> 0]

\* item.get(field, 0)
ItemGet(item, f) == IF f \in DOMAIN item THEN item[f] ELSE JNum(0)

\* The first of the four float(...) calls that raises for the item (float(None)
\* is a TypeError), or one more than their number when none raises.
FirstRaising(item) ==
    LET bad == {k \in 1..Len(NutritionFields) : ItemGet(item, NutritionFields[k]) = JNull}
    IN IF bad = {} THEN Len(NutritionFields) + 1
       ELSE CHOOSE k \in bad : \A j \in bad : k <= j

\* One iteration of "for item in items": the four += statements share one try,
\* so the first that raises ends the iteration and the earlier ones stay added.
AddItem(acc, item) ==
    LET stop == FirstRaising(item)
        pos(f) == CHOOSE k \in 1..Len(NutritionFields) : NutritionFields[k] = f
    IN [f \in FieldSet |-> IF pos(f) < stop THEN acc[f] + ItemGet(item, f)[1] ELSE acc[f]]

RECURSIVE SumItems(_, _)
SumItems(items, acc) ==
    IF items = <<>> THEN acc ELSE SumItems(Tail(items), AddItem(acc, Head(items)))

\* NutritionAggregator.update_from_meal
UpdateFromMeal(data, u, items) ==
    LET sums == SumItems(items, ZeroTotals)
        stats == IF u \in DOMAIN data THEN data[u] ELSE ZeroTotals
    IN [x \in DOMAIN data \cup {u} |->
           IF x = u THEN [f \in FieldSet |-> stats[f] + sums[f]] ELSE data[x]]

\* NutritionAggregator.get_totals, which get_insights returns
GetTotals(data, u) == IF u \in DOMAIN data THEN data[u] ELSE ZeroTotals

\* _handle_event(event) of the nutrition service: the totals after the call and
\* whether it raised.  event.get and meal.get raise AttributeError when the
\* event or its meal is not an object.
NutritionHandleEvent(data, event) ==
    IF event.t # "obj" THEN [raises |-> TRUE, totals |-> data]
    ELSE LET m == event.m IN
         IF "event_type" \notin DOMAIN m \/ m.event_type # Str("meal_logged")
         THEN [raises |-> FALSE, totals |-> data]
         ELSE LET u == IF "user_id" \in DOMAIN m THEN m.user_id.v ELSE "None" IN
              IF "meal" \notin DOMAIN m
              THEN [raises |-> FALSE, totals |-> UpdateFromMeal(data, u, <<>>)]
              ELSE IF m.meal.t # "json" THEN [raises |-> TRUE, totals |-> data]
              ELSE [raises |-> FALSE,
                    totals |-> UpdateFromMeal(data, u,
                                  IF "items" \in DOMAIN m.meal.v THEN m.meal.v.items
                                  ELSE <<>>)]

\* One iteration of "for msg in messages" in the consumer thread of the
\* nutrition service, whose handler is _handle_event.
NutritionProcessMessage(r) ==
    /\ pc[r] = "dispatch"
    /\ idx[r] <= Len(batch[r])
    /\ LET msg == Current(batch[r], idx[r])
           probe == ProcessSingleMessage(msg, "returns")
           h == IF probe.invoked THEN NutritionHandleEvent(totals, probe.data)
                ELSE [raises |-> FALSE, totals |-> totals]
           outcome == IF h.raises THEN "raises" ELSE "returns"
           res == ProcessSingleMessage(msg, outcome)
           call == [pos |-> idx[r], id |-> msg.id, data |-> res.data, sent |-> msg.value,
                    outcome |-> outcome, age |-> msg.age, ahead |-> msg.ahead,
                    clean |-> msg.clean]
       IN /\ calls' = IF res.invoked THEN [calls EXCEPT ![r] = Append(@, call)] ELSE calls
          /\ handled' = IF res.invoked THEN [handled EXCEPT ![r] = Append(@, msg.id)]
                        ELSE handled
          /\ seen' = IF res.invoked THEN Append(seen, res.data) ELSE seen
          /\ totals' = h.totals
          /\ pc' = IF res.escapes THEN [pc EXCEPT ![r] = "dead"] ELSE pc
          /\ idx' = IF res.escapes THEN idx ELSE [idx EXCEPT ![r] = @ + 1]
    /\ UNCHANGED <<brokerVars, declaredHere, lastPublish, startResult, chan, batch, timer,
                   lastFetch, sinceFetch, fetched, failStreak, redeclared, stopAt,
                   mealStore, recipeStore, commentStore, request, response, publishCalls,
                   accepted>>

\* ----------------------------------------------------------- specifications
\* Two consumers polling one queue that this process and foreign clients fill.
Next ==
    \/ \E e \in Events : PublishMessage("c1", e, MaxMsgs, FALSE, FALSE)
    \/ \E f \in ForeignMessages : ForeignPublish("c1", f, MaxMsgs)
    \/ ForeignDeclare("c1")
    \/ \E r \in Consumers : StartConsumer(r, "c1")
    \/ \E r \in Consumers : Fetch(r)
    \/ \E r \in Consumers : ProcessMessage(r)
    \/ \E r \in Consumers : BeginSleep(r)
    \/ \E r \in Consumers : Wake(r)
    \/ Tick(FALSE)

Spec == Init /\ [][Next]_vars

\* The threads are scheduled fairly and time passes.
FairSpec ==
    /\ Spec
    /\ WF_vars(Tick(FALSE))
    /\ \A r \in Consumers : WF_vars(ConsumerStep(r))

\* A producer publishing to two queues, one consumer.
PubNext ==
    \/ \E c \in Channels, e \in Events : PublishMessage(c, e, MaxMsgs, FALSE, TRUE)
    \/ \E c \in Channels : ForeignDeclare(c)
    \/ \E c \in Channels : StartConsumer("r1", c)
    \/ Fetch("r1")
    \/ ProcessMessage("r1")
    \/ BeginSleep("r1")
    \/ Wake("r1")
    \/ Tick(FALSE)

PubSpec == Init /\ [][PubNext]_vars

\* The same with the thread scheduled fairly and time passing.
FairPubSpec ==
    /\ PubSpec
    /\ WF_vars(Tick(FALSE))
    /\ WF_vars(ConsumerStep("r1"))

\* One consumer on one queue and a producer that may publish in bursts; the
\* waiting time of every message is recorded.
BurstNext ==
    \/ PublishMessage("c1", EvX, MaxBurst, TRUE, FALSE)
    \/ StartConsumer("r1", "c1")
    \/ Fetch("r1")
    \/ ProcessMessage("r1")
    \/ BeginSleep("r1")
    \/ Wake("r1")
    \/ Tick(TRUE)

BurstSpec == Init /\ [][BurstNext]_vars

\* One consumer on one queue whose caller may ask it to stop.
StopNext ==
    \/ \E e \in Events : PublishMessage("c1", e, MaxMsgs, FALSE, FALSE)
    \/ StartConsumer("r1", "c1")
    \/ StopConsumer("r1")
    \/ Fetch("r1")
    \/ ProcessMessage("r1")
    \/ BeginSleep("r1")
    \/ Wake("r1")
    \/ Tick(FALSE)

StopSpec == Init /\ [][StopNext]_vars

\* The meal service and the community service creating and listing meals and
\* recipes; the queues they publish to may or may not exist at the broker.
SvcNext ==
    \/ \E c \in Channels : ForeignDeclare(c)
    \/ \E u \in Users, rq \in MealRequests : LogMeal(u, rq)
    \/ PublishMealEvent
    \/ \E u \in Users : GetMealsRequest(u)
    \/ \E rq \in RecipeRequests : CreateRecipe(rq)
    \/ PublishRecipeEvent
    \/ ListRecipes

SvcSpec == Init /\ [][SvcNext]_vars

\* All the endpoints of the meal service.
MealNext ==
    \/ ForeignDeclare(NutritionServiceQueue)
    \/ \E u \in Users, rq \in MealRequests : LogMeal(u, rq)
    \/ PublishMealEvent
    \/ \E u \in Users : GetMealsRequest(u)

MealSpec == Init /\ [][MealNext]_vars

\* The meal service logging meals and the nutrition service consuming their
\* events, with other events published to the same queue.
NutritionNext ==
    \/ \E u \in Users, rq \in MealRequests : LogMeal(u, rq)
    \/ PublishMealEvent
    \/ \E e \in Events : PublishMessage(NutritionServiceQueue, e, MaxMsgs, FALSE, FALSE)
    \/ StartConsumer("r1", NutritionServiceQueue)
    \/ Fetch("r1")
    \/ NutritionProcessMessage("r1")
    \/ BeginSleep("r1")
    \/ Wake("r1")
    \/ Tick(FALSE)

NutritionSpec == Init /\ [][NutritionNext]_vars

\* One iteration step of the nutrition service's polling thread.
NutritionConsumerStep(r) ==
    Fetch(r) \/ NutritionProcessMessage(r) \/ BeginSleep(r) \/ Wake(r)

\* A publish_message call of the meal service gets no 2xx answer in this step.
MealPublishFails ==
    /\ Len(publishCalls') > Len(publishCalls)
    /\ response'["meal"].published \in {"Unreachable", "BrokerRejected"}

\* A get_messages call of the nutrition service's thread fails in this step.
NutritionFetchFails ==
    pc["r1"] = "fetch" /\ pc'["r1"] # "fetch" /\ lastFetch'["r1"] = "fail"

\* The meal service and the nutrition service alone on the queue while the
\* broker stays reachable: it answers every publish of the meal service and
\* every fetch of the nutrition service.
ReachableDeliveryNext ==
    \/ \E u \in Users, rq \in MealRequests : LogMeal(u, rq)
    \/ PublishMealEvent /\ ~MealPublishFails
    \/ StartConsumer("r1", NutritionServiceQueue)
    \/ Fetch("r1") /\ ~NutritionFetchFails
    \/ NutritionProcessMessage("r1")
    \/ BeginSleep("r1")
    \/ Wake("r1")
    \/ Tick(FALSE)

\* The polling thread is scheduled fairly, time passes and the endpoint runs
\* to its end.
ReachableDeliverySpec ==
    /\ Init /\ [][ReachableDeliveryNext]_vars
    /\ WF_vars(Tick(FALSE))
    /\ WF_vars(NutritionConsumerStep("r1"))
    /\ WF_vars(PublishMealEvent)

\* All the endpoints of the community service.
CommunityNext ==
    \/ ForeignDeclare(NotificationServiceQueue)
    \/ \E rq \in RecipeRequests : CreateRecipe(rq)
    \/ PublishRecipeEvent
    \/ ListRecipes
    \/ \E id \in RecipeIds, rq \in CommentRequests : AddComment(id, rq)
    \/ \E id \in RecipeIds : GetComments(id)

CommunitySpec == Init /\ [][CommunityNext]_vars

\* Both producers, with one user of the meal service, and one consumer that is
\* started on either queue.
PipelineNext ==
    \/ \E rq \in MealRequests : LogMeal("u1", rq)
    \/ PublishMealEvent
    \/ \E rq \in RecipeRequests : CreateRecipe(rq)
    \/ PublishRecipeEvent
    \/ ForeignDeclare(NotificationServiceQueue)
    \/ \E c \in Channels : StartConsumer("r1", c)
    \/ Fetch("r1")
    \/ ProcessMessage("r1")
    \/ BeginSleep("r1")
    \/ Wake("r1")
    \/ Tick(FALSE)

PipelineSpec == Init /\ [][PipelineNext]_vars

\* ------------------------------------------------------------------ claims
WellFormed(m) == m.kind = "wellformed"
Defective(m) == m.kind \in {"missing", "empty", "malformed"}
Ids(q) == {q[i].id : i \in 1..Len(q)}
Done(r) == idx[r] - 1

\* C1: a consumer that is processing a fetched batch, whatever the payloads of
\* its messages and whether the handler returns or raises, always gets back to
\* the top of its loop and fetches again.
C1_BatchNeverStopsConsumer ==
    \A r \in Consumers : (pc[r] = "dispatch") ~> (pc[r] = "fetch")

\* A consumer is about to fetch again after a batch that held a defective
\* message and a message whose handler raised.
C1_Witness ==
    \E r \in Consumers :
       /\ pc[r] = "fetch"
       /\ lastFetch[r] = "ok"
       /\ \E i \in 1..Len(batch[r]) : Defective(batch[r][i])
       /\ \E i \in 1..Len(calls[r]) : calls[r][i].outcome = "raises"

\* C2: when the handler raised for message j of a batch, the thread lives on and
\* every well-formed message after j that the loop has passed was handed to the
\* handler.
C2_RaiseDoesNotStopBatch ==
    \A r \in Consumers : \A i \in 1..Len(calls[r]) :
       calls[r][i].outcome = "raises" =>
          /\ pc[r] # "dead"
          /\ idx[r] > calls[r][i].pos
          /\ \A k \in (calls[r][i].pos + 1)..Done(r) :
                WellFormed(batch[r][k]) =>
                   \E i2 \in 1..Len(calls[r]) :
                      calls[r][i2].pos = k /\ calls[r][i2].id = batch[r][k].id

\* The handler raised for the first message of a batch and was invoked for the
\* second.
C2_Witness ==
    \E r \in Consumers :
       /\ Len(calls[r]) = 2
       /\ calls[r][1].outcome = "raises"
       /\ calls[r][1].pos = 1
       /\ calls[r][2].pos = 2

\* The values published in the well-formed messages among the first n of b.
RECURSIVE ExpectedCalls(_, _)
ExpectedCalls(b, n) ==
    IF n = 0 THEN <<>>
    ELSE ExpectedCalls(b, n - 1)
         \o (IF WellFormed(b[n]) THEN <<[id |-> b[n].id, data |-> b[n].value]>> ELSE <<>>)

ActualCalls(r) == [i \in 1..Len(calls[r]) |-> [id |-> calls[r][i].id, data |-> calls[r][i].data]]

\* C3: the handler invocations of a poll are exactly the values of the fetched
\* messages whose payload is present and valid JSON, in fetch order; a message
\* with a missing, empty or malformed payload is passed over.
C3_CallsAreTheWellFormedMessages ==
    \A r \in Consumers : ActualCalls(r) = ExpectedCalls(batch[r], Done(r))

\* A batch of two messages, one of them defective, is done with one invocation.
C3_Witness ==
    \E r \in Consumers :
       /\ pc[r] = "sleep"
       /\ Len(batch[r]) = 2
       /\ \E i \in 1..2 : Defective(batch[r][i])
       /\ Len(calls[r]) = 1

\* C4: after a failed fetch the handler is not invoked in that poll cycle and
\* the thread is not back at get_messages before poll_interval * 2 has passed.
C4_FailedFetchBacksOff ==
    \A r \in Consumers :
       lastFetch[r] = "fail" =>
          /\ calls[r] = <<>>
          /\ pc[r] \in {"backoff", "fetch"}
          /\ pc[r] = "fetch" => sinceFetch[r] >= PollInterval * BackoffMultiplier

\* A consumer is about to fetch again after a failed fetch.
C4_Witness ==
    \E r \in Consumers :
       /\ lastFetch[r] = "fail"
       /\ pc[r] = "fetch"
       /\ sinceFetch[r] = PollInterval * BackoffMultiplier

\* C5: a failed fetch never ends the thread; after it the loop waits and gets
\* back to get_messages, however many fetches have failed before.
C5_FetchFailureNeverStopsLoop ==
    \A r \in Consumers :
       /\ [](pc[r] # "dead")
       /\ (lastFetch[r] = "fail" /\ pc[r] # "fetch") ~> (pc[r] = "fetch")

\* A consumer whose latest fetch failed is waiting in the backoff sleep.
C5_Witness ==
    \E r \in Consumers :
       /\ pc[r] = "backoff"
       /\ lastFetch[r] = "fail"
       /\ timer[r] > 0

\* The messages published to c1 that no handler has been called for yet.
Waiting ==
    {queues["c1"][i] : i \in 1..Len(queues["c1"])}
    \cup {batch["r1"][k] : k \in idx["r1"]..Len(batch["r1"])}

NoRepeats(seq) == \A i, j \in 1..Len(seq) : i # j => seq[i] # seq[j]

\* What C6 asks of a set of deliveries: none waits longer than 2 * poll_interval,
\* the handler gets the value that was published, and gets it once.
WithinTwoPolls(covered(_)) ==
    /\ \A m \in Waiting : covered(m) => m.age <= 2 * PollInterval
    /\ \A i \in 1..Len(calls["r1"]) :
          covered(calls["r1"][i]) =>
             /\ calls["r1"][i].age <= 2 * PollInterval
             /\ calls["r1"][i].data = calls["r1"][i].sent
    /\ NoRepeats(handled["r1"])

\* C6 as stated: every event published to the queue of a started consumer over
\* a reachable broker is handed to the handler once, equal to what was
\* published, within 2 * poll_interval.
C6_EveryEventWithinTwoPolls ==
    LET covered(m) == m.clean IN WithinTwoPolls(covered)

\* C6 amended: the same for the events that found fewer than max_batch = 5
\* messages waiting in the queue when they were published.
C6_EventWithinTwoPollsUnlessBacklog ==
    LET covered(m) == m.clean /\ m.ahead < MaxBatch IN WithinTwoPolls(covered)

\* An event published behind another one during a backoff sleep reached the
\* handler 2 * poll_interval later, equal to what was published.
C6_Witness ==
    \E i \in 1..Len(calls["r1"]) :
       /\ calls["r1"][i].clean
       /\ calls["r1"][i].ahead = 1
       /\ calls["r1"][i].age = 2 * PollInterval
       /\ calls["r1"][i].data = EvX

\* C7: a message that a fetch has returned is gone from the queue for good: no
\* message is handed to a handler twice, by the same consumer or by two, and
\* none that was fetched (handled, raised for, or passed over) is in a queue.
C7_FetchedOnceDispatchedAtMostOnce ==
    /\ \A c \in Channels : Ids(queues[c]) \cap fetched = {}
    /\ \A r \in Consumers :
          /\ NoRepeats(handled[r])
          /\ Ids(batch[r]) \subseteq fetched
          /\ {handled[r][i] : i \in 1..Len(handled[r])} \subseteq fetched
    /\ \A r1, r2 \in Consumers :
          r1 # r2 =>
             /\ Ids(batch[r1]) \cap Ids(batch[r2]) = {}
             /\ \A i \in 1..Len(handled[r1]), j \in 1..Len(handled[r2]) :
                   handled[r1][i] # handled[r2][j]

\* A consumer that handled a message has fetched a later batch, which does not
\* hold that message.
C7_Witness ==
    \E r \in Consumers :
       /\ lastFetch[r] = "ok"
       /\ batch[r] # <<>>
       /\ \E i \in 1..Len(handled[r]) : handled[r][i] \notin Ids(batch[r])

Increasing(seq) == \A i, j \in 1..Len(seq) : i < j => seq[i] < seq[j]

\* C8: a consumer hands messages to its handler one after the other in the
\* order the broker returned them, within a batch and over the run, and is done
\* with a batch before it sleeps and fetches again.
C8_DispatchInFetchOrder ==
    \A r \in Consumers :
       /\ Increasing(handled[r])
       /\ Increasing([i \in 1..Len(batch[r]) |-> batch[r][i].id])
       /\ Increasing([i \in 1..Len(calls[r]) |-> calls[r][i].pos])
       /\ \A i \in 1..Len(calls[r]) :
             calls[r][i].pos <= Done(r) /\ calls[r][i].id = batch[r][calls[r][i].pos].id
       /\ pc[r] \in {"fetch", "sleep", "backoff"} => Done(r) = Len(batch[r])

\* A consumer has handled both messages of a batch of two.
C8_Witness ==
    \E r \in Consumers :
       /\ pc[r] = "sleep"
       /\ Len(batch[r]) = 2
       /\ Len(calls[r]) = 2
       /\ Len(handled[r]) = 2

\* C9: publish_message reports success only for a 2xx response that says the
\* message was routed, and then the broker holds the message; it reports
\* NotRouted when the broker accepted the request and no queue has the name,
\* and an error for every other response.
C9_PublishReportsRouting ==
    lastPublish.result # "none" =>
       /\ lastPublish.result = "ok" <=> (lastPublish.status = "ok" /\ lastPublish.existed)
       /\ lastPublish.result = "NotRouted" <=>
             (lastPublish.status = "ok" /\ ~lastPublish.existed)
       /\ lastPublish.status # "ok" => lastPublish.result \in {"BrokerRejected", "Unreachable"}
       /\ IF lastPublish.result = "ok"
          THEN lastPublish.id \in Ids(queues[lastPublish.chan]) \cup fetched
          ELSE lastPublish.id = 0

\* A publish to a queue that does not exist was reported NotRouted, while the
\* other queue exists.
C9_Witness ==
    /\ lastPublish.result = "NotRouted"
    /\ lastPublish.chan \notin declared
    /\ declared # {}

\* C10: whenever publish_message has sent a publish request for a channel, this
\* process had declared that channel before.
C10_PublishDeclaresChannelFirst ==
    lastPublish.result # "none" => lastPublish.declaredHere

\* C11: once a declare of a channel by this process has succeeded, the process
\* sends no further declare request for that channel.
C11_DeclareSentAtMostOnce == redeclared = {}

\* C12: a start_consumer call whose declare failed has started no thread: the
\* consumer polls nothing and its handler is never invoked.
C12_FailedDeclareStartsNothing ==
    \A r \in Consumers :
       startResult[r] = "error" =>
          /\ pc[r] = "idle"
          /\ ~Running(r)
          /\ lastFetch[r] = "none"
          /\ batch[r] = <<>>
          /\ handled[r] = <<>>

\* A start_consumer call failed on a queue that exists and holds a message, and
\* the other consumer is polling that queue.
C12_Witness ==
    /\ startResult["r1"] = "error"
    /\ "c1" \in declared
    /\ queues["c1"] # <<>>
    /\ Running("r2")

\* C14: after a caller asked the handle of a started consumer to stop, the
\* handler of that consumer is not invoked again.
C14_NoInvocationAfterStop ==
    \A r \in Consumers : stopAt[r] > 0 => Len(handled[r]) = stopAt[r] - 1

\* C16: after a successful fetch, of an empty batch too, the thread dispatches
\* the batch and sleeps poll_interval, never the longer backoff, and fetches
\* again exactly poll_interval after the fetch.
C16_SuccessfulPollSleepsPollInterval ==
    \A r \in Consumers :
       Running(r) /\ lastFetch[r] = "ok" =>
          /\ pc[r] \in {"dispatch", "sleep", "fetch"}
          /\ pc[r] = "dispatch" => sinceFetch[r] = 0
          /\ pc[r] = "sleep" => timer[r] + sinceFetch[r] = PollInterval
          /\ pc[r] = "fetch" => sinceFetch[r] = PollInterval

\* A consumer is about to fetch again after a successful fetch that returned
\* nothing.
C16_Witness ==
    \E r \in Consumers :
       /\ pc[r] = "fetch"
       /\ lastFetch[r] = "ok"
       /\ batch[r] = <<>>
       /\ sinceFetch[r] = PollInterval

\* A get_messages call of some consumer fails in this step.
FetchFails ==
    \E r \in Consumers : pc[r] = "fetch" /\ pc'[r] # "fetch" /\ lastFetch'[r] = "fail"

InChannel(i, c) ==
    \E k \in 1..Len(queues[c]) : queues[c][k].id = i /\ queues[c][k].kind = "wellformed"

Dispatched(i) == \E r \in Consumers : \E k \in 1..Len(handled[r]) : handled[r][k] = i

\* C15: if the fetches fail only for a finite time, every well-formed message
\* that waits in a queue some consumer polls is eventually handed to a handler.
C15_DispatchedAfterOutage ==
    <>[][~FetchFails]_vars =>
       \A i \in 1..MaxMsgs : (InChannel(i, "c1") /\ Polling("c1")) ~> Dispatched(i)

\* A well-formed message waits in the queue while the consumer polling it is in
\* the backoff sleep after a failed fetch.
C15_Witness ==
    \E r \in Consumers, i \in 1..MaxMsgs :
       /\ pc[r] = "backoff"
       /\ chan[r] = "c1"
       /\ lastFetch[r] = "fail"
       /\ InChannel(i, "c1")

\* A publish_message call that reports NotRouted happens in this step.
ReportsNotRouted == lastPublish' # lastPublish /\ lastPublish'.result = "NotRouted"

\* C17: a message publish_message reported as published stays in its queue as
\* long as no consumer polls the queue, and once a consumer has started on the
\* queue the message is handed to the handler (if fetches fail only for a
\* finite time); a publish reported NotRouted puts nothing in any queue, so no
\* consumer ever gets that message.
C17_PublishedWaitsForConsumer ==
    /\ [](lastPublish.result = "ok" /\ ~Polling(lastPublish.chan)
            => lastPublish.id \in Ids(queues[lastPublish.chan]))
    /\ [](lastPublish.status = "ok" /\ ~lastPublish.existed
            => lastPublish.result = "NotRouted")
    /\ [][ReportsNotRouted => queues' = queues /\ nextId' = nextId]_vars
    /\ <>[][~FetchFails]_vars =>
          \A c \in Channels, i \in 1..MaxMsgs :
             (InChannel(i, c) /\ Polling(c) /\ lastFetch["r1"] = "none") ~> Dispatched(i)

\* A message was published to a queue nobody polled, the consumer started on
\* the queue later and its handler has received the message.
C17_Witness ==
    /\ lastPublish.result = "ok"
    /\ ~lastPublish.declaredHere
    /\ Polling(lastPublish.chan)
    /\ handled["r1"] # <<>>
    /\ handled["r1"][1] = lastPublish.id

\* The ids of a sequence of stored entities.
IdsOf(entities) == {entities[k].id : k \in 1..Len(entities)}

\* The entity a response of log_meal or create_recipe is about is in the store
\* its GET endpoint reads.
Visible(s) ==
    IF s = "meal"
    THEN response[s].id \in IdsOf(GetMeals(mealStore, response[s].user))
    ELSE response[s].id \in IdsOf(recipeStore)

\* C13: a log_meal or create_recipe request that passed validation is answered
\* 201 whatever its publish_message call reported, and the meal or recipe is in
\* the store its GET endpoint returns.
C13_EventingFailureNeverFailsRequest ==
    \A s \in Services :
       response[s].op \in {"log_meal", "create_recipe"} /\ response[s].published # "none" =>
          /\ response[s].status = 201
          /\ Visible(s)

\* Both services answered a request whose publish_message call raised: one
\* because the broker was unreachable, one because the event was not routed.
C13_Witness ==
    /\ response["meal"].op = "log_meal"
    /\ response["meal"].published = "Unreachable"
    /\ response["meal"].status = 201
    /\ response["community"].op = "create_recipe"
    /\ response["community"].published = "NotRouted"
    /\ response["community"].status = 201

\* The publish_message calls service s has made.
CallsOf(s) == SelectSeq(publishCalls, LAMBDA call : call.service = s)

\* The entities of service s whose request has reached its publish_message call.
Published(s, stored) == IF request[s] = NoRequest THEN stored ELSE stored - 1

\* C18: the publish_message calls of the community service are, in order, one
\* new_recipe_posted event on notification_service_queue for each recipe whose
\* create_recipe went past validation; a create_recipe answered 201 has its
\* recipe in the store; the comment and list endpoints add no call.
C18_OnePublishPerRecipe ==
    LET made == CallsOf("community") IN
    /\ Len(made) = Published("community", Len(recipeStore))
    /\ \A k \in 1..Len(made) :
          /\ made[k].queue = NotificationServiceQueue
          /\ made[k].event.m.event_type = Str("new_recipe_posted")
          /\ made[k].event.m.recipe = Str(recipeStore[k].id)
    /\ response["community"].op = "create_recipe" /\ response["community"].status = 201
          => response["community"].id \in IdsOf(recipeStore)

\* Two recipes were created and announced, and a comment was added.
C18_Witness ==
    /\ Len(recipeStore) = 2
    /\ Len(CallsOf("community")) = 2
    /\ commentStore # [i \in {} |-> <<>>]
    /\ response["community"].op = "list_recipes"

\* The meal service answers a request in this step.
MealAnswer == response'["meal"] # response["meal"]

\* C19: the store holds for every user exactly the meals of that user's valid
\* log_meal requests, in order, and a user has a list from the first such meal
\* on; get_meals returns that list; a request answered 422 changes neither the
\* store nor the broker and makes no publish_message call; the meal service
\* publishes one event for each stored meal.
C19_MealsAreTheAcceptedOnes ==
    /\ [](\A u \in Users :
             /\ GetMeals(mealStore, u) = accepted[u]
             /\ u \in DOMAIN mealStore <=> accepted[u] # <<>>)
    /\ [](Len(CallsOf("meal")) = Published("meal", Cardinality(StoredMeals)))
    /\ [][MealAnswer /\ response'["meal"].op = "get_meals"
              => response'["meal"].body = accepted[response'["meal"].user]]_vars
    /\ [][MealAnswer /\ response'["meal"].status = 422
              => /\ mealStore' = mealStore
                 /\ publishCalls' = publishCalls
                 /\ queues' = queues]_vars

\* A user's second meal was appended to the first and get_meals returned both.
C19_Witness ==
    /\ Len(accepted["u1"]) = 2
    /\ response["meal"].op = "get_meals"
    /\ response["meal"].user = "u1"
    /\ Len(response["meal"].body) = 2
    /\ response["meal"].body[1].id # response["meal"].body[2].id

\* The community service answers a request in this step.
CommunityAnswer == response'["community"] # response["community"]

\* C20: add_comment and get_comments answer 404 exactly for the recipe ids that
\* are not in the recipe store, and then the comment store is unchanged; only
\* recipes in the store have comments; the comments of a recipe change only by
\* add_comment appending its comment, and get_comments returns them.
C20_CommentsOnlyOnExistingRecipes ==
    /\ [](DOMAIN commentStore \subseteq IdsOf(recipeStore))
    /\ [][CommunityAnswer /\ response'["community"].op \in {"add_comment", "get_comments"}
              => /\ response'["community"].status = 404
                       <=> response'["community"].id \notin IdsOf(recipeStore)
                 /\ response'["community"].status = 404 => commentStore' = commentStore]_vars
    /\ [][commentStore' # commentStore
              => /\ response'["community"].op = "add_comment"
                 /\ response'["community"].status = 201
                 /\ \A i \in RecipeIds :
                       GetForRecipe(commentStore', i) =
                          IF i = response'["community"].id
                          THEN Append(GetForRecipe(commentStore, i),
                                      response'["community"].body[1])
                          ELSE GetForRecipe(commentStore, i)]_vars
    /\ [][CommunityAnswer /\ response'["community"].op = "get_comments"
                          /\ response'["community"].status = 200
              => response'["community"].body =
                    GetForRecipe(commentStore, response'["community"].id)]_vars

\* get_comments returned the two comments of a recipe while another recipe id
\* is not in the store.
C20_Witness ==
    /\ response["community"].op = "get_comments"
    /\ response["community"].status = 200
    /\ Len(response["community"].body) = 2
    /\ response["community"].body[1] # response["community"].body[2]
    /\ Len(recipeStore) = 1

\* C23: after a failed fetch the thread waits poll_interval * 2 before its next
\* fetch, after the second and later failures in a row as after the first; after
\* a successful fetch it waits poll_interval again.
C23_BackoffIsConstant ==
    \A r \in Consumers :
       Running(r) =>
          /\ failStreak[r] >= 1 <=> lastFetch[r] = "fail"
          /\ failStreak[r] >= 1 =>
                /\ pc[r] \in {"backoff", "fetch"}
                /\ pc[r] = "backoff" =>
                      timer[r] + sinceFetch[r] = PollInterval * BackoffMultiplier
                /\ pc[r] = "fetch" => sinceFetch[r] = PollInterval * BackoffMultiplier
          /\ failStreak[r] = 0 /\ pc[r] = "sleep" =>
                timer[r] + sinceFetch[r] = PollInterval

\* A consumer whose fetch failed at least MaxStreak times in a row is about to
\* fetch again.
C23_Witness ==
    \E r \in Consumers :
       /\ failStreak[r] = MaxStreak
       /\ pc[r] = "fetch"
       /\ sinceFetch[r] = PollInterval * BackoffMultiplier

\* A get_messages call of consumer r succeeds in this step.
FetchSucceeds(r) == pc[r] = "fetch" /\ pc'[r] = "dispatch"

\* C24: a poll takes at most max_batch = 5 messages and invokes the handler at
\* most 5 times; of a queue that holds more, the first 5 are fetched and the
\* others stay in the queue, in order.
C24_AtMostMaxBatchPerPoll ==
    /\ [](\A r \in Consumers : Len(batch[r]) <= MaxBatch /\ Len(calls[r]) <= MaxBatch)
    /\ [][\A r \in Consumers :
             FetchSucceeds(r) =>
                LET q == queues[chan[r]] IN
                /\ batch'[r] \o queues'[chan[r]] = q
                /\ Len(batch'[r]) = Min(MaxBatch, Len(q))]_vars

\* The handler was invoked 5 times in a poll and the message that was sixth in
\* the queue is still there.
C24_Witness ==
    /\ Len(calls["r1"]) = MaxBatch
    /\ queues["c1"] # <<>>
    /\ queues["c1"][1].ahead = MaxBatch

\* The consumers that have handed message i to their handler.
HandlersOf(i) == {r \in Consumers : \E k \in 1..Len(handled[r]) : handled[r][k] = i}

\* C25: a start_consumer call that succeeded has exactly its own thread
\* polling; of consumers polling the same queue no two hand the same message
\* to their handlers, and a well-formed message a consumer has fetched and
\* gone past was handed to the handler of that consumer alone.
C25_EachMessageToOneConsumer ==
    /\ \A r \in Consumers : startResult[r] = "ok" <=> Running(r)
    /\ \A i \in fetched : Cardinality(HandlersOf(i)) <= 1
    /\ \A r \in Consumers :
          \A k \in 1..Done(r) :
             WellFormed(batch[r][k]) => HandlersOf(batch[r][k].id) = {r}

\* Two consumers poll the same queue and each has handled a message.
C25_Witness ==
    /\ chan["r1"] = chan["r2"]
    /\ handled["r1"] # <<>>
    /\ handled["r2"] # <<>>

\* C26: a consumer thread exists, and so fetches, only after the declare of
\* its start_consumer call has succeeded: the queue it polls exists.
C26_DeclaredBeforeFirstFetch ==
    \A r \in Consumers :
       Running(r) \/ lastFetch[r] # "none" =>
          /\ startResult[r] = "ok"
          /\ chan[r] \in declaredHere
          /\ chan[r] \in declared

\* A consumer has fetched from a queue that only its own start_consumer call
\* can have declared.
C26_Witness ==
    /\ lastFetch["r1"] = "ok"
    /\ chan["r1"] = "c2"
    /\ lastPublish.result = "NotRouted"
    /\ lastPublish.chan = "c1"
    /\ declared = {"c2"}

\* The value of a field of an item as a sum counts it: a missing or null field
\* adds nothing.
FieldOrZero(item, f) == IF f \in DOMAIN item /\ item[f] # JNull THEN item[f][1] ELSE 0

RECURSIVE ItemsSum(_, _)
ItemsSum(items, f) ==
    IF items = <<>> THEN 0 ELSE FieldOrZero(Head(items), f) + ItemsSum(Tail(items), f)

IsMealLoggedFor(e, u) ==
    /\ e.t = "obj"
    /\ "event_type" \in DOMAIN e.m
    /\ e.m.event_type = Str("meal_logged")
    /\ "user_id" \in DOMAIN e.m
    /\ e.m.user_id = Str(u)

EventItems(e) ==
    IF "meal" \in DOMAIN e.m /\ e.m.meal.t = "json" /\ "items" \in DOMAIN e.m.meal.v
    THEN e.m.meal.v.items
    ELSE <<>>

\* The sum of field f over the items of the meal_logged events for u in events.
RECURSIVE HandledSum(_, _, _)
HandledSum(events, u, f) ==
    IF events = <<>> THEN 0
    ELSE (IF IsMealLoggedFor(Head(events), u) THEN ItemsSum(EventItems(Head(events)), f)
          ELSE 0)
         + HandledSum(Tail(events), u, f)

\* C21: the totals the nutrition service returns for a user are, field by
\* field, the sums over the items of the meal_logged events its handler has
\* handled for that user; other events change nothing and a user without a
\* handled meal has zeros.
C21_TotalsAreSumsOfHandledItems ==
    \A u \in Users, f \in FieldSet : GetTotals(totals, u)[f] = HandledSum(seen, u, f)


\* The number of handled meal_logged events that carry the meal with this id.
RECURSIVE TimesHandled(_, _)
TimesHandled(events, id) ==
    IF events = <<>> THEN 0
    ELSE (IF /\ Head(events).t = "obj"
             /\ "meal" \in DOMAIN Head(events).m
             /\ Head(events).m.meal.t = "json"
             /\ Head(events).m.meal.v.id = id
          THEN 1 ELSE 0)
         + TimesHandled(Tail(events), id)

\* log_meal has stored the meal with this id and not yet published its event.
MealAccepted(id) == request["meal"].op = "log_meal" /\ request["meal"].id = id

\* The event of the meal was handled once and the totals of every user count
\* every handled meal in full.
ReflectedOnce(id) ==
    /\ TimesHandled(seen, id) = 1
    /\ \A u \in Users, f \in FieldSet : GetTotals(totals, u)[f] = HandledSum(seen, u, f)

\* C22: while the broker stays reachable, no meal is counted twice and a meal
\* that log_meal accepts while the nutrition service polls its queue is
\* eventually counted once in the totals.
C22_AcceptedMealCountedOnce ==
    /\ [](\A id \in 1..MaxMeals : TimesHandled(seen, id) <= 1)
    /\ \A id \in 1..MaxMeals :
          (MealAccepted(id) /\ Polling(NutritionServiceQueue)) ~> ReflectedOnce(id)

\* The delivery alone: the event of such a meal is eventually handled, and no
\* event is handled twice.
C22_AcceptedMealHandledOnce ==
    /\ [](\A id \in 1..MaxMeals : TimesHandled(seen, id) <= 1)
    /\ \A id \in 1..MaxMeals :
          (MealAccepted(id) /\ Polling(NutritionServiceQueue))
              ~> (TimesHandled(seen, id) = 1)

\* The events that wait in a channel, were fetched, or were handed to a handler.
EventsInFlight ==
    UNION { {queues[c][k].value : k \in 1..Len(queues[c])} : c \in Channels }
    \cup UNION { {batch[r][k].value : k \in 1..Len(batch[r])} : r \in Consumers }
    \cup UNION { {calls[r][k].data : k \in 1..Len(calls[r])} : r \in Consumers }

EventsHandled == UNION { {calls[r][k].data : k \in 1..Len(calls[r])} : r \in Consumers }

IsEventOfType(e, type) ==
    e.t = "obj" /\ "event_type" \in DOMAIN e.m /\ e.m.event_type = Str(type)

\* The meal or recipe the event describes is in the store of its producer.
EntityStored(e) ==
    /\ IsEventOfType(e, "meal_logged") =>
          \E k \in 1..Len(GetMeals(mealStore, e.m.user_id.v)) :
             GetMeals(mealStore, e.m.user_id.v)[k] = e.m.meal.v
    /\ IsEventOfType(e, "new_recipe_posted") => RecipeExists(recipeStore, e.m.recipe.v)

\* C27: whenever a meal_logged or new_recipe_posted event is in a channel, in
\* a fetched batch or was handled by a consumer, the meal or recipe it
\* describes is in the store of the service that published it.
C27_EntityStoredBeforeEventVisible == \A e \in EventsInFlight : EntityStored(e)

\* A meal_logged event was handled by a consumer while a new_recipe_posted
\* event waits in its channel, and their meal and recipe are stored.
C27_Witness ==
    /\ \E e \in EventsHandled : IsEventOfType(e, "meal_logged") /\ EntityStored(e)
    /\ \E e \in EventsInFlight : IsEventOfType(e, "new_recipe_posted") /\ EntityStored(e)

====
